---- MODULE Spec2Model ----
(***************************************************************************)
(* Conversion workflow of metamorpics (src/src/app/page.tsx, component     *)
(* Home).  The React state of Home, the three lazily imported service      *)
(* handles, and the asynchronous continuations of onDrop and handleConvert *)
(* are modelled as a state machine.  Every event handler and every         *)
(* continuation after an await or a callback runs to completion, so each   *)
(* is one atomic action; the setState calls it makes are applied together  *)
(* before the next event is handled.                                       *)
(*                                                                         *)
(* Strings (file names, MIME types) are sequences of one-character         *)
(* strings, so that String.prototype.split is computed, not assumed.       *)
(***************************************************************************)
EXTENDS Integers, Sequences, FiniteSets, Bags, TLC

----------------------------------------------------------------------------
(* Bounds of the model *)

\* how many onDrop calls and handleConvert runs, together, may be unfinished
\* (awaiting a service or a callback) at the same time
MaxPending == 2
\* up to how many unreleased preview object URLs are counted
MaxLiveUrls == 2

----------------------------------------------------------------------------
(* Strings *)

\* null (a record, so that it compares with Files, Blobs and URLs)
Null == [null |-> TRUE]

image_jpeg == <<"i","m","a","g","e","/","j","p","e","g">>
image_png  == <<"i","m","a","g","e","/","p","n","g">>
image_gif  == <<"i","m","a","g","e","/","g","i","f">>
image_webp == <<"i","m","a","g","e","/","w","e","b","p">>
image_avif == <<"i","m","a","g","e","/","a","v","i","f">>
image_bmp  == <<"i","m","a","g","e","/","b","m","p">>
image_tiff == <<"i","m","a","g","e","/","t","i","f","f">>

undefined == <<"u","n","d","e","f","i","n","e","d">>
converted_image == <<"c","o","n","v","e","r","t","e","d","-","i","m","a","g","e">>

\* String.prototype.split(sep) for a one-character separator: the pieces
\* between the separators, in order; a string without separator is one piece.
RECURSIVE SplitFrom(_, _, _, _)
SplitFrom(s, sep, i, piece) ==
    IF i > Len(s) THEN <<piece>>
    ELSE IF s[i] = sep THEN <<piece>> \o SplitFrom(s, sep, i + 1, <<>>)
    ELSE SplitFrom(s, sep, i + 1, Append(piece, s[i]))

Split(s, sep) == SplitFrom(s, sep, 1, <<>>)

\* arr[k] of JavaScript (k counted from 0); a missing element prints as "undefined"
At(arr, k) == IF k + 1 <= Len(arr) THEN arr[k + 1] ELSE undefined

----------------------------------------------------------------------------
(* Format catalogs, in the order the <select> lists them *)

STANDARD_FORMATS ==
    << image_jpeg, image_png, image_gif, image_webp, image_avif, image_bmp, image_tiff >>

HEIC_FORMATS == << image_jpeg, image_png >>

\* const formats = isHeicFile ? HEIC_FORMATS : STANDARD_FORMATS
formats(heic) == IF heic THEN HEIC_FORMATS ELSE STANDARD_FORMATS

Values(catalog) == { catalog[i] : i \in 1..Len(catalog) }

\* the options the user picks among: the default, which both catalogs list
\* and every canvas encodes, and a format only the standard catalog lists
Picked == { image_jpeg, image_gif }

\* the options of the <select> the user picks from
Offered(heic) == Values(formats(heic)) \cap Picked

----------------------------------------------------------------------------
(* Inputs *)

photo_heic   == <<"p","h","o","t","o",".","h","e","i","c">>
my_photo_png == <<"m","y",".","p","h","o","t","o",".","p","n","g">>

\* A File: its name, and whether its content is HEIC (what isHeic(file) answers)
Files ==
    { [name |-> photo_heic,   heic |-> TRUE],
      [name |-> my_photo_png, heic |-> FALSE] }

\* the acceptedFiles argument of onDrop (maxFiles: 1)
AcceptedFiles == { <<>> } \cup { <<f>> : f \in Files }

\* range slider: min="0" max="100"
SliderMin == 0
SliderMax == 100
DefaultQuality == 80
\* the values the slider is asked to take (dragged, typed or set by script)
QualityInputs == { SliderMin - 1, SliderMax + 1 }

\* mutant: the slider hands on the value it is asked to take
RangeValue_raw(v) == v

\* the value of <input type="range" min="0" max="100"> when asked to take v:
\* the element keeps its value between min and max
RangeValue(v) ==
    IF v < SliderMin THEN SliderMin ELSE IF v > SliderMax THEN SliderMax ELSE v

----------------------------------------------------------------------------
(* State *)

VARIABLES
    quality,            \* useState(80)
    targetFormat,       \* useState('image/jpeg')
    isConverting,       \* useState(false)
    previewUrl,         \* useState(null): Null or an object URL
    convertedBlob,      \* useState(null): Null or a Blob
    originalFileName,   \* useState('')
    selectedFile,       \* useState(null): Null or a File
    isHeicFile,         \* useState(false)
    imageCompression,   \* module-level handle: loaded or not
    heicTo,             \* module-level handle: loaded or not
    isHeic,             \* module-level handle: loaded or not
    drops,              \* bag of onDrop calls awaiting isHeic(file)
    conversions,        \* bag of handleConvert runs that have not finished
    lastOp,             \* what the last step did (console.error, saveAs, ...)
    liveUrls            \* object URLs handed to setPreviewUrl and not revoked (counted up to MaxLiveUrls)

controller ==
    << quality, targetFormat, isConverting, previewUrl, convertedBlob,
       originalFileName, selectedFile, isHeicFile >>

handles == << imageCompression, heicTo, isHeic >>

vars == << quality, targetFormat, isConverting, previewUrl, convertedBlob,
           originalFileName, selectedFile, isHeicFile,
           imageCompression, heicTo, isHeic, drops, conversions, lastOp,
           liveUrls >>

\* URL.createObjectURL(obj): a handle for obj
createObjectURL(obj) == [url |-> obj]

\* the count of unreleased object URLs after one more URL.createObjectURL
Allocated(n) == IF n < MaxLiveUrls THEN n + 1 ELSE n

\* a Blob: its MIME type; from and requested record what it was made of
Blob(file, type, requested) == [from |-> file, type |-> type, requested |-> requested]

Op(name) == [op |-> name]

Add(bag, e) == bag (+) SetToBag({e})
Pending == BagCardinality(drops) + BagCardinality(conversions)
Remove(bag, e) == bag (-) SetToBag({e})

Init ==
    /\ quality = DefaultQuality
    /\ targetFormat = image_jpeg
    /\ isConverting = FALSE
    /\ previewUrl = Null
    /\ convertedBlob = Null
    /\ originalFileName = <<>>
    /\ selectedFile = Null
    /\ isHeicFile = FALSE
    /\ imageCompression = FALSE
    /\ heicTo = FALSE
    /\ isHeic = FALSE
    /\ drops = EmptyBag
    /\ conversions = EmptyBag
    /\ lastOp = Op("init")
    /\ liveUrls = 0

----------------------------------------------------------------------------
(* Lazy imports *)

\* import('browser-image-compression').then(...)
LoadImageCompression ==
    /\ ~imageCompression
    /\ imageCompression' = TRUE
    /\ lastOp' = Op("import")
    /\ UNCHANGED liveUrls
    /\ UNCHANGED << controller, heicTo, isHeic, drops, conversions >>

\* mutant: the import assigns isHeic only
LoadHeicTo_isHeicOnly ==
    /\ ~isHeic
    /\ isHeic' = TRUE
    /\ lastOp' = Op("import")
    /\ UNCHANGED liveUrls
    /\ UNCHANGED << controller, imageCompression, heicTo, drops, conversions >>

\* import('heic-to').then(...)
LoadHeicTo ==
    /\ ~heicTo
    /\ heicTo' = TRUE
    /\ isHeic' = TRUE
    /\ lastOp' = Op("import")
    /\ UNCHANGED liveUrls
    /\ UNCHANGED << controller, imageCompression, drops, conversions >>

----------------------------------------------------------------------------
(* Controls *)

\* <select onChange={(e) => setTargetFormat(e.target.value)}>
SelectFormat ==
    \E v \in Offered(isHeicFile) :
        /\ v # targetFormat
        /\ targetFormat' = v
        /\ lastOp' = Op("set")
        /\ UNCHANGED liveUrls
        /\ UNCHANGED << quality, isConverting, previewUrl, convertedBlob,
                        originalFileName, selectedFile, isHeicFile,
                        handles, drops, conversions >>

\* <input type="range" onChange={(e) => setQuality(Number(e.target.value))}>
SlideQuality ==
    \E v \in QualityInputs :
        /\ RangeValue(v) # quality
        /\ quality' = RangeValue(v)
        /\ lastOp' = Op("set")
        /\ UNCHANGED liveUrls
        /\ UNCHANGED << targetFormat, isConverting, previewUrl, convertedBlob,
                        originalFileName, selectedFile, isHeicFile,
                        handles, drops, conversions >>

----------------------------------------------------------------------------
(* onDrop (acceptFile) *)

\* onDrop up to the await: return on an empty drop, throw into the catch when
\* the classification handle is not loaded, otherwise call isHeic(file).
\* The callback closes over the targetFormat of the render it belongs to.
OnDrop ==
    \E acceptedFiles \in AcceptedFiles :
        /\ UNCHANGED liveUrls
        /\ UNCHANGED << controller, handles, conversions >>
        /\ IF Len(acceptedFiles) = 0
           THEN /\ lastOp' = Op("onDrop.return")
                /\ UNCHANGED drops
           ELSE IF ~isHeic
           THEN /\ lastOp' = Op("onDrop.catch")
                /\ UNCHANGED drops
           ELSE /\ Pending < MaxPending
                /\ drops' = Add(drops, [file |-> acceptedFiles[1],
                                        targetFormat |-> targetFormat])
                /\ lastOp' = Op("await")

\* mutant: the format of the closure is kept for a HEIC file as well
DroppedTargetFormat_keep(fileIsHeic, closureTargetFormat) == closureTargetFormat

\* mutant: the format is reset to the default for every file
DroppedTargetFormat_reset(fileIsHeic, closureTargetFormat) == image_jpeg

\* what onDrop stores as targetFormat once the file is classified
DroppedTargetFormat(fileIsHeic, closureTargetFormat) ==
    IF fileIsHeic THEN image_jpeg ELSE closureTargetFormat

\* isHeic(file) resolved: the rest of the try block
OnDropClassified(d) ==
    LET file == d.file
        fileIsHeic == file.heic
    IN  /\ BagIn(d, drops)
        /\ drops' = Remove(drops, d)
        /\ isHeicFile' = fileIsHeic
        /\ targetFormat' = DroppedTargetFormat(fileIsHeic, d.targetFormat)
        /\ originalFileName' = file.name
        /\ selectedFile' = file
        /\ previewUrl' = createObjectURL(file)
        /\ convertedBlob' = Null
        /\ lastOp' = [op |-> "onDrop", targetFormat |-> d.targetFormat]
        /\ liveUrls' = Allocated(liveUrls)
        /\ UNCHANGED << quality, isConverting, handles, conversions >>

\* mutant: the catch block clears the result
OnDropRejected_clear(d) ==
    /\ BagIn(d, drops)
    /\ drops' = Remove(drops, d)
    /\ convertedBlob' = Null
    /\ lastOp' = Op("onDrop.catch")
    /\ UNCHANGED liveUrls
    /\ UNCHANGED << quality, targetFormat, isConverting, previewUrl,
                    originalFileName, selectedFile, isHeicFile,
                    handles, conversions >>

\* isHeic(file) rejected: the catch block
OnDropRejected(d) ==
    /\ BagIn(d, drops)
    /\ drops' = Remove(drops, d)
    /\ lastOp' = Op("onDrop.catch")
    /\ UNCHANGED liveUrls
    /\ UNCHANGED << controller, handles, conversions >>

----------------------------------------------------------------------------
(* handleConvert (convert) *)

\* <button disabled={!selectedFile || isConverting} onClick={handleConvert}>
ConvertDisabled == selectedFile = Null \/ isConverting

\* the end of a handleConvert run, as the user can observe it
ConvertEnd(c, failed, result) ==
    [op |-> "handleConvert", failed |-> failed, result |-> result]

\* a handleConvert run: the values its closure holds, and where it waits
Run(at) ==
    [file |-> selectedFile, type |-> targetFormat,
     quality |-> << quality, 100 >>, at |-> at]

\* handleConvert after its first line, up to its first await
ConvertStart ==
    /\ previewUrl' = Null
    /\ convertedBlob' = Null
    /\ UNCHANGED liveUrls
    /\ UNCHANGED << quality, targetFormat, originalFileName, selectedFile,
                    isHeicFile, handles, drops >>
    /\ IF isHeicFile /\ heicTo
       THEN /\ Pending < MaxPending
            /\ isConverting' = TRUE
            /\ conversions' = Add(conversions, Run("heicTo"))
            /\ lastOp' = Op("await")
       ELSE IF imageCompression
       THEN /\ Pending < MaxPending
            /\ isConverting' = TRUE
            /\ conversions' = Add(conversions, Run("imageCompression"))
            /\ lastOp' = Op("await")
       ELSE \* neither branch taken: only the finally block runs
            /\ isConverting' = FALSE
            /\ UNCHANGED conversions
            /\ lastOp' = ConvertEnd(Run("start"), "notLoaded", "nothing")

\* mutant: handleConvert without its first line
HandleConvert_unguarded == ~isConverting /\ ConvertStart

\* handleConvert is called: by a click on the convert button, which is disabled
\* while converting, or with no file selected, which its first line turns
\* into a return (the button is disabled then, the handler does not rely on it)
HandleConvert ==
    IF selectedFile = Null
    THEN /\ lastOp' = Op("handleConvert.return")
         /\ UNCHANGED << controller, handles, drops, conversions, liveUrls >>
    ELSE ~ConvertDisabled /\ ConvertStart

\* heicTo(...) resolved with a blob of the requested type
HeicToResolved(c) ==
    LET blob == Blob(c.file, c.type, c.type)
    IN  /\ BagIn(c, conversions) /\ c.at = "heicTo"
        /\ conversions' = Remove(conversions, c)
        /\ convertedBlob' = blob
        /\ previewUrl' = createObjectURL(blob)
        /\ isConverting' = FALSE
        /\ lastOp' = ConvertEnd(c, "none", "stored")
        /\ liveUrls' = Allocated(liveUrls)
        /\ UNCHANGED << quality, targetFormat, originalFileName, selectedFile,
                        isHeicFile, handles, drops >>

\* heicTo(...) rejected: catch, then finally
HeicToRejected(c) ==
    /\ BagIn(c, conversions) /\ c.at = "heicTo"
    /\ conversions' = Remove(conversions, c)
    /\ isConverting' = FALSE
    /\ lastOp' = ConvertEnd(c, "heicTo", "console.error")
    /\ UNCHANGED liveUrls
    /\ UNCHANGED << quality, targetFormat, previewUrl, convertedBlob,
                    originalFileName, selectedFile, isHeicFile, handles, drops >>

\* imageCompression(...) resolved: img.onload is set, img.src assigned, and
\* the return inside the try block runs the finally block
CompressionResolved(c) ==
    /\ BagIn(c, conversions) /\ c.at = "imageCompression"
    /\ conversions' = Add(Remove(conversions, c), [c EXCEPT !.at = "img"])
    /\ isConverting' = FALSE
    /\ lastOp' = Op("await")
    /\ UNCHANGED liveUrls
    /\ UNCHANGED << quality, targetFormat, previewUrl, convertedBlob,
                    originalFileName, selectedFile, isHeicFile, handles, drops >>

\* imageCompression(...) rejected: catch, then finally
CompressionRejected(c) ==
    /\ BagIn(c, conversions) /\ c.at = "imageCompression"
    /\ conversions' = Remove(conversions, c)
    /\ isConverting' = FALSE
    /\ lastOp' = ConvertEnd(c, "imageCompression", "console.error")
    /\ UNCHANGED liveUrls
    /\ UNCHANGED << quality, targetFormat, previewUrl, convertedBlob,
                    originalFileName, selectedFile, isHeicFile, handles, drops >>

\* mutant: toBlob is handed the targetFormat and quality of the current render
ImgOnload_live(c) ==
    /\ BagIn(c, conversions) /\ c.at = "img"
    /\ conversions' = Add(Remove(conversions, c),
                          [c EXCEPT !.at = "toBlob", !.type = targetFormat,
                                    !.quality = << quality, 100 >>])
    /\ lastOp' = Op("await")
    /\ UNCHANGED liveUrls
    /\ UNCHANGED << controller, handles, drops >>

\* img.onload: draw, then canvas.toBlob(callback, targetFormat, quality / 100),
\* both arguments being those of the closure of this handleConvert run
ImgOnload(c) ==
    /\ BagIn(c, conversions) /\ c.at = "img"
    /\ conversions' = Add(Remove(conversions, c), [c EXCEPT !.at = "toBlob"])
    /\ lastOp' = Op("await")
    /\ UNCHANGED liveUrls
    /\ UNCHANGED << controller, handles, drops >>

\* the image fails to load: img has no onerror handler, nothing runs
ImgError(c) ==
    /\ BagIn(c, conversions) /\ c.at = "img"
    /\ conversions' = Remove(conversions, c)
    /\ lastOp' = ConvertEnd(c, "img", "nothing")
    /\ UNCHANGED liveUrls
    /\ UNCHANGED << controller, handles, drops >>

\* the types every browser's canvas encodes; whether it encodes another type
\* depends on the browser
CanvasAlwaysEncodes == { image_png, image_jpeg }

\* what canvas.toBlob may hand to its callback: null, a blob of the requested
\* type, or, when the browser does not encode that type, a PNG blob instead
ToBlobResults(c) ==
    { Null, Blob(c.file, c.type, c.type) }
        \cup (IF c.type \in CanvasAlwaysEncodes THEN {}
              ELSE { Blob(c.file, image_png, c.type) })

\* the callback of canvas.toBlob
ToBlobCallback(c) ==
    \E blob \in ToBlobResults(c) :
        /\ BagIn(c, conversions) /\ c.at = "toBlob"
        /\ conversions' = Remove(conversions, c)
        /\ IF blob # Null
           THEN /\ convertedBlob' = blob
                /\ previewUrl' = createObjectURL(blob)
                /\ liveUrls' = Allocated(liveUrls)
                /\ lastOp' = ConvertEnd(c, "none", "stored")
           ELSE /\ UNCHANGED << convertedBlob, previewUrl, liveUrls >>
                /\ lastOp' = ConvertEnd(c, "toBlob", "nothing")
        /\ isConverting' = FALSE
        /\ UNCHANGED << quality, targetFormat, originalFileName, selectedFile,
                        isHeicFile, handles, drops >>

----------------------------------------------------------------------------
(* handleDownload (download) *)

\* const extension = targetFormat.split('/')[1]
Extension(format) == At(Split(format, "/"), 1)

\* mutant: the original name is kept whole
BaseName_whole(name) == name

\* originalFileName.split('.')[0]
BaseName(name) == At(Split(name, "."), 0)

\* the fileName handed to saveAs
FileName(name, format) ==
    IF name # <<>>
    THEN BaseName(name) \o <<".">> \o Extension(format)
    ELSE converted_image \o <<".">> \o Extension(format)

HandleDownload ==
    /\ convertedBlob # Null
    /\ lastOp' = [op |-> "saveAs",
                  fileName |-> FileName(originalFileName, targetFormat)]
    /\ UNCHANGED liveUrls
    /\ UNCHANGED << controller, handles, drops, conversions >>

----------------------------------------------------------------------------

Next ==
    \/ LoadImageCompression
    \/ LoadHeicTo
    \/ SelectFormat
    \/ SlideQuality
    \/ OnDrop
    \/ \E d \in BagToSet(drops) : OnDropClassified(d)
    \/ \E d \in BagToSet(drops) : OnDropRejected(d)
    \/ HandleConvert
    \/ \E c \in BagToSet(conversions) : HeicToResolved(c)
    \/ \E c \in BagToSet(conversions) : HeicToRejected(c)
    \/ \E c \in BagToSet(conversions) : CompressionResolved(c)
    \/ \E c \in BagToSet(conversions) : CompressionRejected(c)
    \/ \E c \in BagToSet(conversions) : ImgOnload(c)
    \/ \E c \in BagToSet(conversions) : ImgError(c)
    \/ \E c \in BagToSet(conversions) : ToBlobCallback(c)
    \/ HandleDownload

Spec == Init /\ [][Next]_vars

----------------------------------------------------------------------------
(* The alternate workflow variant (src/unnamed/part_000): HEIC files are     *)
(* turned into JPEG by heic2any when they are dropped, and every file is    *)
(* converted by imageCompression and the canvas.  The variable heicTo holds *)
(* the heic2any handle here; isHeic and isHeicFile are not used.  The       *)
(* format select, the quality slider, img.onload, the toBlob callback and   *)
(* handleDownload are the same code as in page.tsx.                         *)

dot_heic == <<".","h","e","i","c">>
dot_jpg  == <<".","j","p","g">>

\* name.endsWith(suffix)
EndsWith(name, suffix) ==
    /\ Len(name) >= Len(suffix)
    /\ SubSeq(name, Len(name) - Len(suffix) + 1, Len(name)) = suffix

\* file.type === 'image/heic' || file.name.toLowerCase().endsWith('.heic')
\* (the browser derives file.type from the extension; names are lower case)
AltIsHeicFile(file) == EndsWith(file.name, dot_heic)

\* file.name.replace(/\.heic$/i, '.jpg')
AltJpgName(name) ==
    IF EndsWith(name, dot_heic)
    THEN SubSeq(name, 1, Len(name) - Len(dot_heic)) \o dot_jpg
    ELSE name

\* the File convertHeicToJpeg returns: a JPEG under the .jpg name
AltJpegFile(file) == [name |-> AltJpgName(file.name), heic |-> FALSE]

\* import('heic2any').then(...)
AltLoadHeic2any ==
    /\ ~heicTo
    /\ heicTo' = TRUE
    /\ lastOp' = Op("import")
    /\ UNCHANGED << controller, imageCompression, isHeic, drops, conversions,
                    liveUrls >>

\* the four setState calls at the end of onDrop
AltSelect(file) ==
    /\ originalFileName' = file.name
    /\ selectedFile' = file
    /\ previewUrl' = createObjectURL(file)
    /\ liveUrls' = Allocated(liveUrls)
    /\ convertedBlob' = Null
    /\ lastOp' = Op("onDrop")
    /\ UNCHANGED << quality, targetFormat, isConverting, isHeicFile, handles,
                    conversions >>

\* onDrop: return on an empty drop; a HEIC file goes to convertHeicToJpeg,
\* which throws when heic2any is not loaded and awaits it otherwise; any
\* other file is selected at once
AltOnDrop ==
    \E acceptedFiles \in AcceptedFiles :
        IF Len(acceptedFiles) = 0
        THEN /\ lastOp' = Op("onDrop.return")
             /\ UNCHANGED << controller, handles, drops, conversions, liveUrls >>
        ELSE IF AltIsHeicFile(acceptedFiles[1])
        THEN /\ UNCHANGED << controller, handles, conversions, liveUrls >>
             /\ IF ~heicTo
                THEN /\ lastOp' = Op("onDrop.catch")
                     /\ UNCHANGED drops
                ELSE /\ Pending < MaxPending
                     /\ drops' = Add(drops, [file |-> acceptedFiles[1]])
                     /\ lastOp' = Op("await")
        ELSE /\ AltSelect(acceptedFiles[1])
             /\ UNCHANGED drops

\* heic2any(...) resolved: the JPEG file is selected
AltHeicResolved(d) ==
    /\ BagIn(d, drops)
    /\ drops' = Remove(drops, d)
    /\ AltSelect(AltJpegFile(d.file))

\* heic2any(...) rejected: convertHeicToJpeg rethrows, onDrop logs and returns
AltHeicRejected(d) ==
    /\ BagIn(d, drops)
    /\ drops' = Remove(drops, d)
    /\ lastOp' = Op("onDrop.catch")
    /\ UNCHANGED << controller, handles, conversions, liveUrls >>

\* handleConvert up to its await: return without a file or without
\* imageCompression, otherwise start the re-compression
AltHandleConvert ==
    IF selectedFile = Null
    THEN /\ lastOp' = Op("handleConvert.return")
         /\ UNCHANGED << controller, handles, drops, conversions, liveUrls >>
    ELSE /\ ~ConvertDisabled
         /\ UNCHANGED << quality, targetFormat, originalFileName, selectedFile,
                         isHeicFile, handles, drops, liveUrls >>
         /\ IF ~imageCompression
            THEN /\ lastOp' = Op("handleConvert.return")
                 /\ UNCHANGED << isConverting, previewUrl, convertedBlob,
                                 conversions >>
            ELSE /\ Pending < MaxPending
                 /\ isConverting' = TRUE
                 /\ previewUrl' = Null
                 /\ convertedBlob' = Null
                 /\ conversions' = Add(conversions, Run("imageCompression"))
                 /\ lastOp' = Op("await")

\* imageCompression(...) resolved: img.onload is set and img.src assigned;
\* there is no finally block, isConverting stays true
AltCompressionResolved(c) ==
    /\ BagIn(c, conversions) /\ c.at = "imageCompression"
    /\ conversions' = Add(Remove(conversions, c), [c EXCEPT !.at = "img"])
    /\ lastOp' = Op("await")
    /\ UNCHANGED << controller, handles, drops, liveUrls >>

\* imageCompression(...) rejected: the catch block
AltCompressionRejected(c) ==
    /\ BagIn(c, conversions) /\ c.at = "imageCompression"
    /\ conversions' = Remove(conversions, c)
    /\ isConverting' = FALSE
    /\ lastOp' = ConvertEnd(c, "imageCompression", "console.error")
    /\ UNCHANGED << quality, targetFormat, previewUrl, convertedBlob,
                    originalFileName, selectedFile, isHeicFile, handles, drops,
                    liveUrls >>

AltNext ==
    \/ LoadImageCompression
    \/ AltLoadHeic2any
    \/ SelectFormat
    \/ SlideQuality
    \/ AltOnDrop
    \/ \E d \in BagToSet(drops) : AltHeicResolved(d)
    \/ \E d \in BagToSet(drops) : AltHeicRejected(d)
    \/ AltHandleConvert
    \/ \E c \in BagToSet(conversions) : AltCompressionResolved(c)
    \/ \E c \in BagToSet(conversions) : AltCompressionRejected(c)
    \/ \E c \in BagToSet(conversions) : ImgOnload(c)
    \/ \E c \in BagToSet(conversions) : ImgError(c)
    \/ \E c \in BagToSet(conversions) : ToBlobCallback(c)
    \/ HandleDownload

AltSpec == Init /\ [][AltNext]_vars

----------------------------------------------------------------------------
(* Properties *)

\* the last step was the end of a handleConvert run
ConvertEnded == lastOp.op = "handleConvert"

\* the last step was a successful onDrop
Accepted == lastOp.op = "onDrop"

\* the last step was a saveAs
Saved == lastOp.op = "saveAs"

\* the text after the last '.' of a file name
AfterLastDot(s) == Split(s, ".")[Len(Split(s, "."))]

\* the text before the last '.' of a name (the whole name when it has no '.')
BeforeLastDot(s) ==
    IF Len(Split(s, ".")) = 1 THEN s
    ELSE SubSeq(s, 1, Len(s) - Len(AfterLastDot(s)) - 1)

\* the file extensions a MIME type stands for
CanonicalExtensions(mime) ==
    { At(Split(mime, "/"), 1) } \cup
    (IF mime = image_jpeg THEN { <<"j","p","g">> } ELSE {})

\* C1: at most one conversion is in flight in every reachable state (a
\* convert() made while a conversion is unfinished never starts a second run).
C1_AtMostOneInFlight == BagCardinality(conversions) <= 1

\* C2: a non-null convertedBlob was produced from the file that is currently
\* selectedFile.
C2_ResultFromSelectedFile ==
    convertedBlob # Null => convertedBlob.from = selectedFile

\* C3: targetFormat is always a member of the catalog that isHeicFile selects.
C3_TargetFormatInCatalog == targetFormat \in Values(formats(isHeicFile))

\* C3 witness: a HEIC file has just been accepted by an onDrop that was invoked
\* while 'image/gif' was selected, with another onDrop still being classified.
C3_Witness ==
    /\ Accepted /\ isHeicFile
    /\ lastOp.targetFormat = image_gif
    /\ drops # EmptyBag

\* C4: when a step of a conversion fails (heicTo rejects, imageCompression
\* rejects, the image fails to load, toBlob yields no blob), afterwards
\* isConverting is false, convertedBlob is null and selectedFile is unchanged.
C4_FailureReturnsToFileSelected ==
    [][ (lastOp'.op = "handleConvert"
            /\ lastOp'.failed \in {"heicTo", "imageCompression", "img", "toBlob"})
        => (~isConverting' /\ convertedBlob' = Null /\ selectedFile' = selectedFile)
      ]_vars

\* C5: an onDrop that fails (isHeic not loaded, or isHeic(file) rejects) leaves
\* every piece of controller state as it was.
C5_FailedAcceptChangesNothing ==
    [][ lastOp'.op = "onDrop.catch" => UNCHANGED controller ]_vars

\* C5 witness: isHeic(file) has just been rejected while a converted file was shown.
C5_Witness ==
    /\ lastOp.op = "onDrop.catch"
    /\ selectedFile # Null /\ convertedBlob # Null /\ previewUrl # Null

\* C6 (as claimed): after every successful onDrop targetFormat is 'image/jpeg'.
C6_AcceptResetsToJpeg == Accepted => targetFormat = image_jpeg

\* C6 (amended): after a successful onDrop targetFormat is 'image/jpeg' when the
\* file is HEIC, and otherwise the targetFormat the onDrop callback closed over.
C6_AcceptResetsHeicOnly ==
    Accepted =>
        targetFormat = (IF isHeicFile THEN image_jpeg ELSE lastOp.targetFormat)

\* C6 witness: a non-HEIC file has just been accepted and 'image/gif' is kept.
C6_Witness == Accepted /\ ~isHeicFile /\ targetFormat = image_gif

\* C7: the extension of the downloaded file name is the one implied by the MIME
\* type of the live result, i.e. by the format requested when it was produced.
C7_ExtensionOfResult ==
    Saved =>
        AfterLastDot(lastOp.fileName) \in
            CanonicalExtensions(convertedBlob.type)
                \cup CanonicalExtensions(convertedBlob.requested)

\* C8: the base of the downloaded file name is the original name before its
\* last '.', and 'converted-image' when the original name is empty.
C8_BaseBeforeLastDot ==
    Saved =>
        BeforeLastDot(lastOp.fileName) =
            (IF originalFileName = <<>> THEN converted_image
             ELSE BeforeLastDot(originalFileName))

\* C9: a blob whose format differs from the targetFormat requested for it is
\* never stored as the result.
C9_NoSubstitutedResult ==
    convertedBlob # Null => convertedBlob.type = convertedBlob.requested

\* C10: no conversion attempt ends with neither a stored result nor a
\* reported error.
C10_NoSilentEnd ==
    ConvertEnded => lastOp.result \in {"stored", "console.error"}

\* C11: at most one preview handle (object URL) is allocated and not released.
C11_AtMostOneLiveHandle == liveUrls <= 1

\* C12: the stored quality is in [0, 100] in every reachable state.
C12_QualityInRange == quality \in SliderMin..SliderMax

\* C12 witness: the slider was asked for a value above 100 and quality is 100.
C12_Witness == quality = SliderMax

photo_jpg  == <<"p","h","o","t","o",".","j","p","g">>
photo_jpeg == <<"p","h","o","t","o",".","j","p","e","g">>

\* the HEIC scenario: photo.heic accepted as HEIC, 'image/jpeg' and quality 80
\* selected, converted, and the result just saved
HeicScenario ==
    /\ Saved
    /\ selectedFile = [name |-> photo_heic, heic |-> TRUE] /\ isHeicFile
    /\ targetFormat = image_jpeg /\ quality = DefaultQuality
    /\ convertedBlob.from = selectedFile /\ convertedBlob.type = image_jpeg

\* C13 (as claimed): the HEIC scenario saves the result as 'photo.jpg'.
C13_SavedAsPhotoJpg == HeicScenario => lastOp.fileName = photo_jpg

\* C13 (amended): the HEIC scenario saves the result as 'photo.jpeg'.
C13_SavedAsPhotoJpeg == HeicScenario => lastOp.fileName = photo_jpeg

\* C13 witness: the HEIC scenario has run to its download.
C13_Witness == HeicScenario

\* C14: handleConvert called with no file selected changes no controller state,
\* calls no service, reports no error and leaves the workflow empty.
C14_ConvertWithoutFileIsNoOp ==
    [][ (selectedFile = Null
            /\ lastOp'.op \in {"handleConvert.return", "handleConvert"})
        => /\ UNCHANGED << controller, conversions, drops >>
           /\ lastOp'.op = "handleConvert.return"
      ]_vars

\* C14 witness: handleConvert has just returned on its first line, with the
\* re-compression service loaded and no file selected.
C14_Witness ==
    lastOp.op = "handleConvert.return" /\ selectedFile = Null /\ imageCompression

\* C15: isConverting is true in every state where a conversion is in flight.
C15_ConvertingWhileInFlight == conversions # EmptyBag => isConverting

\* C16: the MIME type and quality fraction of a run are those of the moment
\* handleConvert was called: a run enters with the current targetFormat and
\* quality, and its arguments never change while it is in flight.
C16_ArgumentsFixedAtCall ==
    [][ \A c \in BagToSet(conversions') :
            \/ \E d \in BagToSet(conversions) :
                   d.file = c.file /\ d.type = c.type /\ d.quality = c.quality
            \/ /\ BagCardinality(conversions') > BagCardinality(conversions)
               /\ c.type = targetFormat /\ c.quality = << quality, 100 >>
      ]_vars

\* C16 witness: canvas.toBlob is pending with the format and quality of the
\* call, after the user has changed both.
C16_Witness ==
    \E c \in BagToSet(conversions) :
        c.at = "toBlob" /\ c.type # targetFormat /\ c.quality # << quality, 100 >>

\* C17: whenever a HEIC file is selected heicTo is loaded, and a HEIC file is
\* never converted through the generic path.
C17_HeicThroughHeicTo ==
    /\ (selectedFile # Null /\ isHeicFile) => heicTo
    /\ \A c \in BagToSet(conversions) :
           (c.file # Null /\ c.file.heic) => c.at = "heicTo"

\* C17 witness: a HEIC file is selected and its conversion awaits heicTo.
C17_Witness ==
    /\ selectedFile # Null /\ isHeicFile
    /\ \E c \in BagToSet(conversions) : c.file = selectedFile /\ c.at = "heicTo"

\* C18: a successful onDrop of a non-HEIC file leaves targetFormat as it was
\* immediately before the accept completed.
C18_NonHeicAcceptKeepsFormat ==
    [][ (lastOp'.op = "onDrop" /\ ~isHeicFile') => targetFormat' = targetFormat ]_vars

\* C19: with a file selected and no conversion in flight, previewUrl is non-null.
C19_PreviewWhenIdle ==
    (selectedFile # Null /\ ~isConverting /\ conversions = EmptyBag)
        => previewUrl # Null

\* C20: in the alternate variant a conversion that set isConverting to true
\* sets it back to false: once no service call or callback of a conversion is
\* pending any more, isConverting is false.
C20_NeverStuckConverting == conversions = EmptyBag => ~isConverting

====
